---- MODULE Spec2Model ----
(***************************************************************************)
(* Model of the D-compiler argument layer of mesonbuild:                   *)
(*   mesonbuild/compilers/d.py          (DmdLikeCompilerMixin, DCompiler,  *)
(*                                       GnuDCompiler, LLVMDCompiler,      *)
(*                                       DmdDCompiler)                     *)
(*   mesonbuild/compilers/mixins/gnu.py (GnuLikeCompiler, GnuCompiler)     *)
(* Argument tokens are strings; the Python string methods the code uses    *)
(* are defined below character by character.                               *)
(***************************************************************************)
EXTENDS Integers, Sequences, FiniteSets, TLC

----------------------------------------------------------------------------
(* Python string primitives used by the code                               *)

\* s[n:] for 0 <= n
From(s, n) == IF n >= Len(s) THEN "" ELSE SubSeq(s, n + 1, Len(s))

\* s.startswith(p)
StartsWith(s, p) == Len(s) >= Len(p) /\ SubSeq(s, 1, Len(p)) = p

\* s.endswith(p)
EndsWith(s, p) == Len(s) >= Len(p) /\ SubSeq(s, Len(s) - Len(p) + 1, Len(s)) = p

\* s.startswith((p1, p2, ...)) / s.endswith((p1, p2, ...))
StartsWithAny(s, ps) == \E p \in ps : StartsWith(s, p)
EndsWithAny(s, ps) == \E p \in ps : EndsWith(s, p)

\* s.index(c): the 0-based position of the first c (c occurs in s)
RECURSIVE Index(_, _)
Index(s, c) == IF Head(s) = c THEN 0 ELSE 1 + Index(Tail(s), c)

\* s.split(c): the pieces between the occurrences of the character c
RECURSIVE SplitFrom(_, _, _)
SplitFrom(s, c, cur) ==
    IF s = "" THEN <<cur>>
    ELSE IF Head(s) = c THEN <<cur>> \o SplitFrom(Tail(s), c, "")
    ELSE SplitFrom(Tail(s), c, cur \o Head(s))

Split(s, c) == SplitFrom(s, c, "")

\* the whitespace characters str.strip() removes (those of the alphabet)
Whitespace == {" ", "\t"}

RECURSIVE LStrip(_)
LStrip(s) == IF s # "" /\ Head(s) \in Whitespace THEN LStrip(Tail(s)) ELSE s

RECURSIVE RStrip(_)
RStrip(s) ==
    IF s # "" /\ SubSeq(s, Len(s), Len(s)) \in Whitespace
    THEN RStrip(SubSeq(s, 1, Len(s) - 1)) ELSE s

\* s.strip()
Strip(s) == RStrip(LStrip(s))

Uppercase == "ABCDEFGHIJKLMNOPQRSTUVWXYZ"
Lowercase == "abcdefghijklmnopqrstuvwxyz"

LowerChar(c) ==
    IF \E i \in 1..Len(Uppercase) : SubSeq(Uppercase, i, i) = c
    THEN LET i == CHOOSE j \in 1..Len(Uppercase) : SubSeq(Uppercase, j, j) = c
         IN  SubSeq(Lowercase, i, i)
    ELSE c

\* s.lower()
RECURSIVE Lower(_)
Lower(s) == IF s = "" THEN "" ELSE LowerChar(Head(s)) \o Lower(Tail(s))

----------------------------------------------------------------------------
(* Host platform (mesonlib.is_windows / is_osx) and the compiler classes   *)

Hosts == {"windows", "osx", "other"}

is_windows(h) == h = "windows"
is_osx(h) == h = "osx"

DmdLikeClasses == {"LLVMDCompiler", "DmdDCompiler"}
Classes == {"GnuDCompiler"} \cup DmdLikeClasses

----------------------------------------------------------------------------
(* DmdLikeCompilerMixin: translation of GNU-style arguments                *)

\* the '--out-implib=' sub-arguments of a '-Wl,' token, as /IMPLIB tokens
\* a mutation of ImplibArgs: the other sub-arguments are passed to the linker
RECURSIVE ImplibArgs_KeepsOthers(_)
ImplibArgs_KeepsOthers(linkargs) ==
    IF linkargs = <<>> THEN <<>>
    ELSE (IF StartsWith(Head(linkargs), "--out-implib=")
          THEN <<"-L=/IMPLIB:" \o Strip(From(Head(linkargs), 13))>>
          ELSE <<"-L=" \o Strip(Head(linkargs))>>) \o ImplibArgs_KeepsOthers(Tail(linkargs))

RECURSIVE ImplibArgs(_)
ImplibArgs(linkargs) ==
    IF linkargs = <<>> THEN <<>>
    ELSE (IF StartsWith(Head(linkargs), "--out-implib=")
          THEN <<"-L=/IMPLIB:" \o Strip(From(Head(linkargs), 13))>>
          ELSE <<>>) \o ImplibArgs(Tail(linkargs))

\* a mutation of translate_arg_to_windows: the runtime name is compared as
\* it is written (no .lower())
translate_arg_to_windows_CaseSensitive(cls, arg) ==
    IF StartsWith(arg, "-Wl,")
    THEN ImplibArgs(Split(From(arg, Index(arg, ",") + 1), ","))
    ELSE IF StartsWith(arg, "-mscrtlib=")
    THEN LET mscrtlib == From(arg, 10)
         IN  <<arg>>
             \o (IF cls = "LLVMDCompiler" /\ mscrtlib # "libcmt"
                 THEN <<"-L=/NODEFAULTLIB:libcmt", "-L=/NODEFAULTLIB:libvcruntime">>
                 ELSE <<>>)
             \o (IF cls = "LLVMDCompiler" /\ StartsWith(mscrtlib, "msvcrt")
                 THEN <<"-L=/DEFAULTLIB:legacy_stdio_definitions.lib">>
                 ELSE <<>>)
    ELSE <<>>

translate_arg_to_windows(cls, arg) ==
    IF StartsWith(arg, "-Wl,")
    THEN ImplibArgs(Split(From(arg, Index(arg, ",") + 1), ","))
    ELSE IF StartsWith(arg, "-mscrtlib=")
    THEN LET mscrtlib == Lower(From(arg, 10))
         IN  <<arg>>
             \o (IF cls = "LLVMDCompiler" /\ mscrtlib # "libcmt"
                 THEN <<"-L=/NODEFAULTLIB:libcmt", "-L=/NODEFAULTLIB:libvcruntime">>
                 ELSE <<>>)
             \o (IF cls = "LLVMDCompiler" /\ StartsWith(mscrtlib, "msvcrt")
                 THEN <<"-L=/DEFAULTLIB:legacy_stdio_definitions.lib">>
                 ELSE <<>>)
    ELSE <<>>

translate_arg_to_osx(cls, arg) ==
    IF StartsWith(arg, "-install_name") THEN <<"-L=" \o arg>> ELSE <<>>

\* the "OS specific arguments first" part of the loop body
osargs(cls, h, arg) ==
    IF is_windows(h) THEN translate_arg_to_windows(cls, arg)
    ELSE IF is_osx(h) THEN translate_arg_to_osx(cls, arg)
    ELSE <<>>

\* a mutation of LinkerPass: the sub-arguments are not stripped
RECURSIVE LinkerPass_NoStrip(_)
LinkerPass_NoStrip(linkargs) ==
    IF linkargs = <<>> THEN <<>>
    ELSE <<"-L=" \o Head(linkargs)>> \o LinkerPass_NoStrip(Tail(linkargs))

\* '-L=' + la.strip() for each la of linkargs
RECURSIVE LinkerPass(_)
LinkerPass(linkargs) ==
    IF linkargs = <<>> THEN <<>>
    ELSE <<"-L=" \o Strip(Head(linkargs))>> \o LinkerPass(Tail(linkargs))

LdcLinkerPrefixes ==
    {"-link-defaultlib", "-linker", "-link-internally", "-linkonce-templates", "-lib"}

\* a mutation of LinkerSearchPath: the extension is not looked at
LinkerSearchPath_Whole(arg) == <<"-L=" \o arg>>

\* the "-L/" / "-L./" branch
LinkerSearchPath(arg) ==
    LET farg == IF StartsWith(arg, "-L=") THEN From(arg, 3) ELSE From(arg, 2)
    IN  IF (EndsWith(arg, ".a") \/ EndsWith(arg, ".lib"))
           /\ Len(farg) > 0 /\ ~StartsWith(farg, "-")
        THEN <<"-L=" \o farg>>
        ELSE <<"-L=" \o arg>>

\* a mutation of ShortLibFlag: the flag is left as it is
ShortLibFlag_Verbatim(arg) == <<arg>>

\* "translate library link flag"
ShortLibFlag(arg) == <<"-L=" \o arg>>

\* a mutation of BareStaticLibrary: the filename is left as it is
BareStaticLibrary_Verbatim(arg) == <<arg>>

\* "ensure static libraries are passed through to the linker"
BareStaticLibrary(arg) == <<"-L=" \o arg>>

\* a mutation of PassThrough: the token is dropped
PassThrough_Dropped(arg) == <<>>

\* the final else: dcargs.append(arg)
PassThrough(arg) == <<arg>>

\* a mutation of CommonArgs: every '-isystem' token keeps what follows the
\* flag as the path of '-I'
CommonArgs_IsystemKeepsPath(arg) ==
    IF arg = "-pthread" THEN <<>>
    ELSE IF StartsWith(arg, "-fstack-protector") THEN <<>>
    ELSE IF StartsWith(arg, "-D") THEN <<>>
    ELSE IF StartsWith(arg, "-Wl,")
    THEN LinkerPass(Split(From(arg, Index(arg, ",") + 1), ","))
    ELSE IF StartsWithAny(arg, LdcLinkerPrefixes) THEN <<arg>>
    ELSE IF StartsWith(arg, "-l") THEN ShortLibFlag(arg)
    ELSE IF StartsWith(arg, "-isystem")
    THEN (IF StartsWith(arg, "-isystem=") THEN <<"-I=" \o From(arg, 9)>>
          ELSE <<"-I" \o From(arg, 8)>>)
    ELSE IF StartsWith(arg, "-L/") \/ StartsWith(arg, "-L./") THEN LinkerSearchPath(arg)
    ELSE IF ~StartsWith(arg, "-") /\ EndsWithAny(arg, {".a", ".lib"})
    THEN BareStaticLibrary(arg)
    ELSE PassThrough(arg)

\* the "common D arguments" part of the loop body
CommonArgs(arg) ==
    IF arg = "-pthread" THEN <<>>
    ELSE IF StartsWith(arg, "-fstack-protector") THEN <<>>
    ELSE IF StartsWith(arg, "-D") THEN <<>>
    ELSE IF StartsWith(arg, "-Wl,")
    THEN LinkerPass(Split(From(arg, Index(arg, ",") + 1), ","))
    ELSE IF StartsWithAny(arg, LdcLinkerPrefixes) THEN <<arg>>
    ELSE IF StartsWith(arg, "-l") THEN ShortLibFlag(arg)
    ELSE IF StartsWith(arg, "-isystem")
    THEN (IF StartsWith(arg, "-isystem=") THEN <<"-I=" \o From(arg, 9)>> ELSE <<"-I">>)
    ELSE IF StartsWith(arg, "-L/") \/ StartsWith(arg, "-L./") THEN LinkerSearchPath(arg)
    ELSE IF ~StartsWith(arg, "-") /\ EndsWithAny(arg, {".a", ".lib"})
    THEN BareStaticLibrary(arg)
    ELSE PassThrough(arg)

\* a mutation of TranslateArg: the common rules are applied to the token even
\* when a platform rule has produced tokens for it (the "continue" is missing)
TranslateArg_NoContinue(cls, h, arg) == osargs(cls, h, arg) \o CommonArgs(arg)

\* one iteration of the loop of translate_args_to_nongnu: the tokens that
\* the input token arg adds to dcargs
TranslateArg(cls, h, arg) ==
    IF osargs(cls, h, arg) # <<>> THEN osargs(cls, h, arg) ELSE CommonArgs(arg)

----------------------------------------------------------------------------
(* get_feature_args: numbers, values and the d_feature_args table          *)

Digits == "0123456789"

DigitValue(c) == (CHOOSE k \in 1..Len(Digits) : SubSeq(Digits, k, k) = c) - 1

IsDigitChar(c) == \E k \in 1..Len(Digits) : SubSeq(Digits, k, k) = c

\* s.isdigit(), for the ASCII strings of the model
IsDigit(s) == s # "" /\ \A k \in 1..Len(s) : IsDigitChar(SubSeq(s, k, k))

\* int(s) for a string of digits
RECURSIVE ParseInt(_)
ParseInt(s) ==
    IF Len(s) = 1 THEN DigitValue(s)
    ELSE 10 * ParseInt(SubSeq(s, 1, Len(s) - 1)) + DigitValue(SubSeq(s, Len(s), Len(s)))

\* str(n) for n >= 0, as '{1}'.format(..., n) writes it
RECURSIVE FormatInt(_)
FormatInt(n) ==
    IF n < 10 THEN SubSeq(Digits, n + 1, n + 1)
    ELSE FormatInt(n \div 10) \o SubSeq(Digits, (n % 10) + 1, (n % 10) + 1)

\* a value of a 'debug' or 'versions' list: a Python int or a Python str
IntVal(n) == [t |-> "int", i |-> n, s |-> ""]
StrVal(x) == [t |-> "str", i |-> 0, s |-> x]

d_feature_args ==
    [id \in {"gcc", "llvm", "dmd"} |->
        CASE id = "gcc"  -> [unittest |-> "-funittest", debug |-> "-fdebug",
                             version |-> "-fversion", import_dir |-> "-J"]
          [] id = "llvm" -> [unittest |-> "-unittest", debug |-> "-d-debug",
                             version |-> "-d-version", import_dir |-> "-J"]
          [] id = "dmd"  -> [unittest |-> "-unittest", debug |-> "-debug",
                             version |-> "-version", import_dir |-> "-J"]]

\* kwargs is a dict in insertion order: a sequence of entries [k, v], the keys
\* distinct
HasKey(kw, key) == \E n \in 1..Len(kw) : kw[n].k = key
Get(kw, key) == kw[CHOOSE n \in 1..Len(kw) : kw[n].k = key].v
Pop(kw, key) == SelectSeq(kw, LAMBDA e : e.k # key)

\* ', '.join(kwargs.keys())
RECURSIVE JoinKeys(_)
JoinKeys(kw) ==
    IF kw = <<>> THEN ""
    ELSE IF Len(kw) = 1 THEN kw[1].k
    ELSE kw[1].k \o ", " \o JoinKeys(Tail(kw))

\* "if not isinstance(x, list): x = [x]"
AsList(v) == v.vals

\* a mutation of NewLevel: the last numeric value wins, not the largest
NewLevel_Last(level, d) ==
    IF d.t = "int" THEN d.i
    ELSE IF d.t = "str" /\ IsDigit(d.s) THEN ParseInt(d.s)
    ELSE level

\* the level after the value d: the first two branches of the loop body
NewLevel(level, d) ==
    IF d.t = "int" THEN (IF d.i > level THEN d.i ELSE level)
    ELSE IF d.t = "str" /\ IsDigit(d.s)
    THEN (IF ParseInt(d.s) > level THEN ParseInt(d.s) ELSE level)
    ELSE level

\* "Parse all debug identifiers and the largest debug level identifier"
RECURSIVE MaxLevel(_, _)
MaxLevel(vals, level) ==
    IF vals = <<>> THEN level ELSE MaxLevel(Tail(vals), NewLevel(level, Head(vals)))

\* a mutation of IdentifierTokens: each identifier token is put in front
RECURSIVE IdentifierTokens_Reversed(_, _)
IdentifierTokens_Reversed(flag, vals) ==
    IF vals = <<>> THEN <<>>
    ELSE IdentifierTokens_Reversed(flag, Tail(vals))
         \o (IF Head(vals).t = "int" \/ IsDigit(Head(vals).s)
             THEN <<>> ELSE <<flag \o "=" \o Head(vals).s>>)

\* the else branch of the loop body: res.append('{0}={1}'.format(flag, d))
RECURSIVE IdentifierTokens(_, _)
IdentifierTokens(flag, vals) ==
    IF vals = <<>> THEN <<>>
    ELSE (IF Head(vals).t = "int" \/ (Head(vals).t = "str" /\ IsDigit(Head(vals).s))
          THEN <<>> ELSE <<flag \o "=" \o Head(vals).s>>)
         \o IdentifierTokens(flag, Tail(vals))

\* "if debug_level >= 0: res.append('{0}={1}'.format(debug_arg, debug_level))"
LevelToken(flag, level) ==
    IF level >= 0 THEN <<flag \o "=" \o FormatInt(level)>> ELSE <<>>

\* the tokens of one 'debug' or 'versions' key
LevelArgs(flag, vals) ==
    IdentifierTokens(flag, vals) \o LevelToken(flag, MaxLevel(vals, -1))

\* posixpath.join(a, b)
PathJoin(a, b) ==
    IF StartsWith(b, "/") THEN b
    ELSE IF a = "" \/ EndsWith(a, "/") THEN a \o b
    ELSE a \o "/" \o b

\* the inner loop over idir_obj.get_incdirs()
RECURSIVE IncdirArgs(_, _, _, _)
IncdirArgs(flag, basedir, incdirs, build_to_src) ==
    IF incdirs = <<>> THEN <<>>
    ELSE LET idir == Head(incdirs)
             expdir == IF idir \notin {"", "."} THEN PathJoin(basedir, idir) ELSE basedir
         IN  <<flag \o PathJoin(build_to_src, expdir)>>
             \o IncdirArgs(flag, basedir, Tail(incdirs), build_to_src)

\* the outer loop over import_dirs
RECURSIVE ImportDirArgs(_, _, _)
ImportDirArgs(flag, dirs, build_to_src) ==
    IF dirs = <<>> THEN <<>>
    ELSE IncdirArgs(flag, Head(dirs).curdir, Head(dirs).incdirs, build_to_src)
         \o ImportDirArgs(flag, Tail(dirs), build_to_src)

\* self.name_string()
RECURSIVE JoinWords(_)
JoinWords(ws) ==
    IF ws = <<>> THEN ""
    ELSE IF Len(ws) = 1 THEN ws[1] ELSE ws[1] \o " " \o JoinWords(Tail(ws))

name_string(obj) == JoinWords(obj.exelist)

\* The sections of get_feature_args. Each takes and gives the state of the
\* call, [kwargs, res, exc]; a section does nothing once exc is set.
UnittestSection(obj, st) ==
    IF st.exc # "" \/ ~HasKey(st.kwargs, "unittest") THEN st
    ELSE LET unittest == Get(st.kwargs, "unittest").b
             unittest_arg == d_feature_args[obj.id].unittest
             popped == Pop(st.kwargs, "unittest")
         IN  IF unittest_arg = ""
             THEN [kwargs |-> popped, res |-> st.res,
                   exc |-> "D compiler " \o name_string(obj)
                           \o " does not support the \"unittest\" feature."]
             ELSE [kwargs |-> popped,
                   res |-> IF unittest THEN Append(st.res, unittest_arg) ELSE st.res,
                   exc |-> ""]

DebugSection(obj, st) ==
    IF st.exc # "" \/ ~HasKey(st.kwargs, "debug") THEN st
    ELSE LET debugs == AsList(Get(st.kwargs, "debug"))
             debug_arg == d_feature_args[obj.id].debug
             popped == Pop(st.kwargs, "debug")
         IN  IF debug_arg = ""
             THEN [kwargs |-> popped, res |-> st.res,
                   exc |-> "D compiler " \o name_string(obj)
                           \o " does not support conditional debug identifiers."]
             ELSE [kwargs |-> popped, res |-> st.res \o LevelArgs(debug_arg, debugs),
                   exc |-> ""]

VersionsSection(obj, st) ==
    IF st.exc # "" \/ ~HasKey(st.kwargs, "versions") THEN st
    ELSE LET versions == AsList(Get(st.kwargs, "versions"))
             version_arg == d_feature_args[obj.id].version
             popped == Pop(st.kwargs, "versions")
         IN  IF version_arg = ""
             THEN [kwargs |-> popped, res |-> st.res,
                   exc |-> "D compiler " \o name_string(obj)
                           \o " does not support conditional version identifiers."]
             ELSE [kwargs |-> popped, res |-> st.res \o LevelArgs(version_arg, versions),
                   exc |-> ""]

ImportDirsSection(obj, st, build_to_src) ==
    IF st.exc # "" \/ ~HasKey(st.kwargs, "import_dirs") THEN st
    ELSE LET import_dirs == Get(st.kwargs, "import_dirs").dirs
             import_dir_arg == d_feature_args[obj.id].import_dir
             popped == Pop(st.kwargs, "import_dirs")
         IN  IF import_dir_arg = ""
             THEN [kwargs |-> popped, res |-> st.res,
                   exc |-> "D compiler " \o name_string(obj)
                           \o " does not support the \"string import directories\" feature."]
             ELSE [kwargs |-> popped,
                   res |-> st.res \o ImportDirArgs(import_dir_arg, import_dirs, build_to_src),
                   exc |-> ""]

\* a mutation of UnknownSection: only the first leftover key is reported
UnknownSection_FirstOnly(st) ==
    IF st.exc # "" \/ st.kwargs = <<>> THEN st
    ELSE [kwargs |-> st.kwargs, res |-> st.res,
          exc |-> "Unknown D compiler feature(s) selected: " \o st.kwargs[1].k]

\* "if kwargs: raise EnvironmentException('Unknown D compiler feature(s) ...')"
UnknownSection(st) ==
    IF st.exc # "" \/ st.kwargs = <<>> THEN st
    ELSE [kwargs |-> st.kwargs, res |-> st.res,
          exc |-> "Unknown D compiler feature(s) selected: " \o JoinKeys(st.kwargs)]

\* DmdLikeCompilerMixin.get_feature_args(kwargs, build_to_src): the state of the
\* call when it returns or raises
DmdLike_get_feature_args(obj, kw, build_to_src) ==
    UnknownSection(
        ImportDirsSection(obj,
            VersionsSection(obj,
                DebugSection(obj,
                    UnittestSection(obj, [kwargs |-> kw, res |-> <<>>, exc |-> ""]))),
            build_to_src))

\* DCompiler.get_feature_args, translated statement by statement on its own.
\* The loop "for d in debugs" / "for v in versions" from value n on: one pass
\* that carries the level and res
RECURSIVE DCompiler_LevelLoop(_, _, _, _, _)
DCompiler_LevelLoop(arg, vals, n, level, res) ==
    IF n > Len(vals) THEN [level |-> level, res |-> res]
    ELSE LET d == vals[n] IN
        IF d.t = "int"
        THEN DCompiler_LevelLoop(arg, vals, n + 1, IF d.i > level THEN d.i ELSE level, res)
        ELSE IF d.t = "str" /\ IsDigit(d.s)
        THEN DCompiler_LevelLoop(arg, vals, n + 1,
                                 IF ParseInt(d.s) > level THEN ParseInt(d.s) ELSE level, res)
        ELSE DCompiler_LevelLoop(arg, vals, n + 1, level, Append(res, arg \o "=" \o d.s))

\* a mutation of DCompiler_Levels: the level token is left out
DCompiler_Levels_NoLevel(arg, vals, res) == DCompiler_LevelLoop(arg, vals, 1, -1, res).res

\* the loop and the "if debug_level >= 0" / "if version_level >= 0" after it
DCompiler_Levels(arg, vals, res) ==
    LET out == DCompiler_LevelLoop(arg, vals, 1, -1, res)
    IN  IF out.level >= 0
        THEN Append(out.res, arg \o "=" \o FormatInt(out.level))
        ELSE out.res

\* "for idir_obj in import_dirs: for idir in idir_obj.get_incdirs()", from
\* the n-th directory object and its m-th include directory on
RECURSIVE DCompiler_ImportDirLoop(_, _, _, _, _, _)
DCompiler_ImportDirLoop(arg, dirs, n, m, b2s, res) ==
    IF n > Len(dirs) THEN res
    ELSE IF m > Len(dirs[n].incdirs)
    THEN DCompiler_ImportDirLoop(arg, dirs, n + 1, 1, b2s, res)
    ELSE LET basedir == dirs[n].curdir
             idir == dirs[n].incdirs[m]
             expdir == IF idir = "" \/ idir = "." THEN basedir ELSE PathJoin(basedir, idir)
             srctreedir == PathJoin(b2s, expdir)
         IN  DCompiler_ImportDirLoop(arg, dirs, n, m + 1, b2s, Append(res, arg \o srctreedir))

\* raise EnvironmentException('D compiler %s does not support ...')
DCompiler_Unsupported(obj, kw, res, what) ==
    [kwargs |-> kw, res |-> res,
     exc |-> "D compiler " \o name_string(obj) \o " does not support " \o what \o "."]

\* DCompiler.get_feature_args(kwargs, build_to_src): the state of the call
\* when it returns or raises
DCompiler_get_feature_args(obj, kw, build_to_src) ==
    LET feature == d_feature_args[obj.id]
        kw1 == IF HasKey(kw, "unittest") THEN Pop(kw, "unittest") ELSE kw
        res1 == IF HasKey(kw, "unittest") /\ Get(kw, "unittest").b
                THEN <<feature.unittest>> ELSE <<>>
        kw2 == IF HasKey(kw1, "debug") THEN Pop(kw1, "debug") ELSE kw1
        res2 == IF HasKey(kw1, "debug")
                THEN DCompiler_Levels(feature.debug, AsList(Get(kw1, "debug")), res1)
                ELSE res1
        kw3 == IF HasKey(kw2, "versions") THEN Pop(kw2, "versions") ELSE kw2
        res3 == IF HasKey(kw2, "versions")
                THEN DCompiler_Levels(feature.version, AsList(Get(kw2, "versions")), res2)
                ELSE res2
        kw4 == IF HasKey(kw3, "import_dirs") THEN Pop(kw3, "import_dirs") ELSE kw3
        res4 == IF HasKey(kw3, "import_dirs")
                THEN DCompiler_ImportDirLoop(feature.import_dir,
                                             Get(kw3, "import_dirs").dirs, 1, 1,
                                             build_to_src, res3)
                ELSE res3
    IN  IF HasKey(kw, "unittest") /\ feature.unittest = ""
        THEN DCompiler_Unsupported(obj, kw1, <<>>, "the \"unittest\" feature")
        ELSE IF HasKey(kw1, "debug") /\ feature.debug = ""
        THEN DCompiler_Unsupported(obj, kw2, res1, "conditional debug identifiers")
        ELSE IF HasKey(kw2, "versions") /\ feature.version = ""
        THEN DCompiler_Unsupported(obj, kw3, res2, "conditional version identifiers")
        ELSE IF HasKey(kw3, "import_dirs") /\ feature.import_dir = ""
        THEN DCompiler_Unsupported(obj, kw4, res3,
                                   "the \"string import directories\" feature")
        ELSE IF kw4 # <<>>
        THEN [kwargs |-> kw4, res |-> res4,
              exc |-> "Unknown D compiler feature(s) selected: " \o JoinKeys(kw4)]
        ELSE [kwargs |-> kw4, res |-> res4, exc |-> ""]

----------------------------------------------------------------------------
(* Flag tables and the gated lookups                                       *)

gnu_optimization_args ==
    [level \in {"0", "g", "1", "2", "3", "s"} |->
        CASE level = "0" -> <<>>
          [] level = "g" -> <<"-Og">>
          [] level = "1" -> <<"-O1">>
          [] level = "2" -> <<"-O2">>
          [] level = "3" -> <<"-O3">>
          [] level = "s" -> <<"-Os">>]

ldc_optimization_args ==
    [level \in {"0", "g", "1", "2", "3", "s"} |->
        CASE level = "0" -> <<>>
          [] level = "g" -> <<>>
          [] level = "1" -> <<"-O1">>
          [] level = "2" -> <<"-O2">>
          [] level = "3" -> <<"-O3">>
          [] level = "s" -> <<"-Os">>]

dmd_optimization_args ==
    [level \in {"0", "g", "1", "2", "3", "s"} |->
        CASE level \in {"0", "g"} -> <<>>
          [] OTHER -> <<"-O">>]

gnu_color_args ==
    [colortype \in {"auto", "always", "never"} |->
        <<"-fdiagnostics-color=" \o colortype>>]

\* GnuCompiler.get_optimization_args, which GnuDCompiler inherits
GnuCompiler_get_optimization_args(optimization_level) ==
    gnu_optimization_args[optimization_level]

LLVMDCompiler_get_optimization_args(optimization_level) ==
    ldc_optimization_args[optimization_level]

\* a mutation of DmdDCompiler_get_optimization_args: it reads the table of LDC
DmdDCompiler_get_optimization_args_LdcTable(optimization_level) ==
    ldc_optimization_args[optimization_level]

DmdDCompiler_get_optimization_args(optimization_level) ==
    dmd_optimization_args[optimization_level]

get_optimization_args(obj, optimization_level) ==
    IF obj.cls = "GnuDCompiler" THEN GnuCompiler_get_optimization_args(optimization_level)
    ELSE IF obj.cls = "LLVMDCompiler"
    THEN LLVMDCompiler_get_optimization_args(optimization_level)
    ELSE DmdDCompiler_get_optimization_args(optimization_level)

\* the version string as its numeric components
RECURSIVE ParseAll(_)
ParseAll(parts) ==
    IF parts = <<>> THEN <<>> ELSE <<ParseInt(Head(parts))>> \o ParseAll(Tail(parts))

VersionParts(v) == ParseAll(Split(v, "."))

\* component by component, a missing component counting as 0
RECURSIVE PartsGE(_, _)
PartsGE(a, b) ==
    IF a = <<>> /\ b = <<>> THEN TRUE
    ELSE LET x == IF a = <<>> THEN 0 ELSE Head(a)
             y == IF b = <<>> THEN 0 ELSE Head(b)
         IN  IF x # y THEN x > y
             ELSE PartsGE(IF a = <<>> THEN a ELSE Tail(a), IF b = <<>> THEN b ELSE Tail(b))

\* mesonlib.version_compare(version, '>=' + wanted)
version_compare_ge(version, wanted) == PartsGE(VersionParts(version), VersionParts(wanted))

\* GnuCompiler.get_colorout_args
GnuCompiler_get_colorout_args(obj, colortype) ==
    IF version_compare_ge(obj.version, "4.9.0") THEN gnu_color_args[colortype] ELSE <<>>

\* GnuDCompiler.get_colorout_args: the value of the call of
\* super().get_colorout_args(colortype) is not returned; both paths reach
\* "return []"
GnuDCompiler_get_colorout_args(obj, colortype) ==
    IF obj._has_color_support
    THEN LET unused == GnuCompiler_get_colorout_args(obj, colortype) IN <<>>
    ELSE <<>>

LLVMDCompiler_get_colorout_args(obj, colortype) ==
    IF colortype = "always" THEN <<"-enable-color">> ELSE <<>>

DmdDCompiler_get_colorout_args(obj, colortype) ==
    IF colortype = "always" THEN <<"-color=on">> ELSE <<>>

get_colorout_args(obj, colortype) ==
    IF obj.cls = "GnuDCompiler" THEN GnuDCompiler_get_colorout_args(obj, colortype)
    ELSE IF obj.cls = "LLVMDCompiler" THEN LLVMDCompiler_get_colorout_args(obj, colortype)
    ELSE DmdDCompiler_get_colorout_args(obj, colortype)

\* DmdLikeCompilerMixin.get_coverage_args
DmdLike_get_coverage_args(obj) == <<"-cov">>

\* a mutation of GnuDCompiler_get_coverage_args: it returns the flag of GCC
GnuDCompiler_get_coverage_args_Flag(obj) == <<"--coverage">>

\* GnuDCompiler.get_coverage_args: "return []", no raise statement
GnuDCompiler_get_coverage_args(obj) == <<>>

get_coverage_args(obj) ==
    IF obj.cls = "GnuDCompiler" THEN GnuDCompiler_get_coverage_args(obj)
    ELSE DmdLike_get_coverage_args(obj)

----------------------------------------------------------------------------
(* get_pic_args                                                            *)

\* GnuLikeCompiler.get_pic_args
GnuLikeCompiler_get_pic_args(obj) ==
    IF obj.compiler_type = "osx" \/ obj.compiler_type = "windows" THEN <<>> ELSE <<"-fPIC">>

\* DmdLikeCompilerMixin.get_pic_args
DmdLike_get_pic_args(obj, h) == IF is_windows(h) THEN <<>> ELSE <<"-fPIC">>

\* DCompiler.get_pic_args
DCompiler_get_pic_args(obj, h) == IF is_windows(h) THEN <<>> ELSE <<"-fPIC">>

\* LLVMDCompiler.get_pic_args: no test of the platform
LLVMDCompiler_get_pic_args(obj, h) == <<"-relocation-model=pic">>

\* the method resolution order: LLVMDCompiler has its own; DmdDCompiler takes
\* the mixin's; GnuDCompiler(DCompiler, GnuCompiler) takes DCompiler's
get_pic_args(obj, h) ==
    IF obj.cls = "LLVMDCompiler" THEN LLVMDCompiler_get_pic_args(obj, h)
    ELSE IF obj.cls = "DmdDCompiler" THEN DmdLike_get_pic_args(obj, h)
    ELSE IF obj.cls = "GnuDCompiler" THEN DCompiler_get_pic_args(obj, h)
    ELSE GnuLikeCompiler_get_pic_args(obj)

----------------------------------------------------------------------------
(* compute_parameters_with_absolute_paths                                  *)

\* sep.join(ws)
RECURSIVE JoinWith(_, _)
JoinWith(ws, sep) ==
    IF ws = <<>> THEN ""
    ELSE IF Len(ws) = 1 THEN ws[1] ELSE ws[1] \o sep \o JoinWith(Tail(ws), sep)

\* os.path.normpath, the loop over the components of the path: empty and '.'
\* components go, '..' removes the component before it when there is one to
\* remove, stays at the start of a relative path and goes at the root
RECURSIVE NormComps(_, _, _)
NormComps(comps, new_comps, initial_slashes) ==
    IF comps = <<>> THEN new_comps
    ELSE LET comp == Head(comps) IN
        IF comp \in {"", "."} THEN NormComps(Tail(comps), new_comps, initial_slashes)
        ELSE IF \/ comp # ".."
                \/ (initial_slashes = 0 /\ new_comps = <<>>)
                \/ (new_comps # <<>> /\ new_comps[Len(new_comps)] = "..")
            THEN NormComps(Tail(comps), Append(new_comps, comp), initial_slashes)
        ELSE IF new_comps # <<>>
            THEN NormComps(Tail(comps), SubSeq(new_comps, 1, Len(new_comps) - 1),
                           initial_slashes)
        ELSE NormComps(Tail(comps), new_comps, initial_slashes)

\* os.path.normpath (POSIX): '' is '.', exactly two leading slashes are kept
normpath(path) ==
    IF path = "" THEN "."
    ELSE LET initial_slashes ==
                 IF ~StartsWith(path, "/") THEN 0
                 ELSE IF StartsWith(path, "//") /\ ~StartsWith(path, "///") THEN 2
                 ELSE 1
             joined == JoinWith(NormComps(Split(path, "/"), <<>>, initial_slashes), "/")
             rooted == IF initial_slashes = 2 THEN "//" \o joined
                       ELSE IF initial_slashes = 1 THEN "/" \o joined
                       ELSE joined
         IN IF rooted = "" THEN "." ELSE rooted

\* (mutant) the prefix is lost
Absolute_PathOnly(i, n, build_dir) == normpath(PathJoin(build_dir, From(i, n)))

\* i[:n] + os.path.normpath(os.path.join(build_dir, i[n:]))
Absolute(i, n, build_dir) ==
    SubSeq(i, 1, IF n < Len(i) THEN n ELSE Len(i))
        \o normpath(PathJoin(build_dir, From(i, n)))

\* i[:n] == p
SliceIs(i, n, p) == SubSeq(i, 1, IF n < Len(i) THEN n ELSE Len(i)) = p

\* DmdLikeCompilerMixin.compute_parameters_with_absolute_paths, the body of
\* the loop: four tests in sequence, each on the token as it was
DmdLike_absolute_path(i, build_dir) ==
    LET r1 == IF SliceIs(i, 3, "-I=") THEN Absolute(i, 3, build_dir) ELSE i
        r2 == IF SliceIs(i, 4, "-L-L") THEN Absolute(i, 4, build_dir) ELSE r1
        r3 == IF SliceIs(i, 5, "-L=-L") THEN Absolute(i, 5, build_dir) ELSE r2
        r4 == IF SliceIs(i, 6, "-Wl,-L") THEN Absolute(i, 6, build_dir) ELSE r3
    IN r4

\* GnuDCompiler.compute_parameters_with_absolute_paths, the body of the loop
GnuDCompiler_absolute_path(i, build_dir) ==
    IF SliceIs(i, 2, "-I") \/ SliceIs(i, 2, "-L") THEN Absolute(i, 2, build_dir) ELSE i

\* GnuLikeCompiler.compute_parameters_with_absolute_paths, the body of the loop
GnuLikeCompiler_absolute_path(i, build_dir) ==
    IF SliceIs(i, 2, "-I") \/ SliceIs(i, 2, "-L") THEN Absolute(i, 2, build_dir) ELSE i

\* for idx, i in enumerate(parameter_list): parameter_list[idx] = ...
compute_parameters_with_absolute_paths(obj, pl, bd) ==
    [idx \in 1..Len(pl) |->
        IF obj.cls \in DmdLikeClasses THEN DmdLike_absolute_path(pl[idx], bd)
        ELSE IF obj.cls = "GnuDCompiler" THEN GnuDCompiler_absolute_path(pl[idx], bd)
        ELSE GnuLikeCompiler_absolute_path(pl[idx], bd)]

----------------------------------------------------------------------------
(* gnulike_default_include_dirs                                            *)

\* stderr.split('\n') of a long text, by the positions of the separator: the
\* k-th piece lies between the (k-1)-th and the k-th occurrence of c
SplitAt(s, c) ==
    LET at == {i \in 1..Len(s) : SubSeq(s, i, i) = c}
        nth(k) == IF k = 0 THEN 0
                  ELSE IF k > Cardinality(at) THEN Len(s) + 1
                  ELSE CHOOSE i \in at : Cardinality({j \in at : j < i}) = k - 1
    IN [k \in 1..Cardinality(at) + 1 |->
            IF nth(k - 1) + 1 > nth(k) - 1 THEN ""
            ELSE SubSeq(s, nth(k - 1) + 1, nth(k) - 1)]

QuoteMarker == "#include \"...\" search starts here:"
AngleMarker == "#include <...> search starts here:"
EndMarker == "End of search list."

\* One line of the scanner in each of its states: the next parse_state,
\* whether line[1:] is appended to paths, and whether the loop breaks.
\* parse_state == 0
Outside(line) ==
    [parse_state |-> IF line = QuoteMarker THEN 1 ELSE 0, append |-> FALSE, break |-> FALSE]

\* parse_state == 1
QuotedRegion(line) ==
    IF line = AngleMarker THEN [parse_state |-> 2, append |-> FALSE, break |-> FALSE]
    ELSE [parse_state |-> 1, append |-> TRUE, break |-> FALSE]

\* (mutant) the end marker is one more path line
AngleRegion_NoBreak(line) == [parse_state |-> 2, append |-> TRUE, break |-> FALSE]

\* parse_state == 2
AngleRegion(line) ==
    IF line = EndMarker THEN [parse_state |-> 2, append |-> FALSE, break |-> TRUE]
    ELSE [parse_state |-> 2, append |-> TRUE, break |-> FALSE]

\* for line in stderr.split('\n'): ..., from line k on; with paths goes the
\* index of the line each path came from
RECURSIVE ScanLines(_, _, _, _, _)
ScanLines(ls, k, parse_state, ps, from) ==
    IF k > Len(ls) THEN [paths |-> ps, path_line |-> from]
    ELSE LET line == ls[k]
             step == IF parse_state = 0 THEN Outside(line)
                     ELSE IF parse_state = 1 THEN QuotedRegion(line)
                     ELSE AngleRegion(line)
         IN IF step.break THEN [paths |-> ps, path_line |-> from]
            ELSE IF step.append
                THEN ScanLines(ls, k + 1, step.parse_state,
                               Append(ps, From(line, 1)), Append(from, k))
            ELSE ScanLines(ls, k + 1, step.parse_state, ps, from)

\* if lang == 'cpp': lang = 'c++'
ProbeLang(lang) == IF lang = "cpp" THEN "c++" ELSE lang

\* cmd = compiler + ['-x{}'.format(lang), '-E', '-v', '-']
ProbeCmd(compiler, lang) == compiler \o <<"-x" \o ProbeLang(lang), "-E", "-v", "-">>

\* (mutant) the warning is given whatever was found
ProbeWarnings_Always(ps, cmd) ==
    <<"No include directory found parsing \"" \o JoinWith(cmd, " ") \o "\" output">>

\* if not paths: mlog.warning(...)
ProbeWarnings(ps, cmd) ==
    IF ps = <<>>
    THEN <<"No include directory found parsing \"" \o JoinWith(cmd, " ") \o "\" output">>
    ELSE <<>>

----------------------------------------------------------------------------
(* DCompiler.sanity_check                                                  *)

\* (mutant) the exit status of the compiler is not looked at
CompileFailed_Never(returncode) == FALSE

\* if pc.returncode != 0
CompileFailed(returncode) == returncode # 0

\* if subprocess.call(output_name) != 0
RunFailed(status) == status # 0

CanNotCompile(obj) == "D compiler " \o name_string(obj) \o " can not compile programs."
NotRunnable(obj) ==
    "Executables created by D compiler " \o name_string(obj) \o " are not runnable."

\* dcargs.extend(...) / dcargs.append(...): new tokens go to the end
Extend(list, new) == list \o new

----------------------------------------------------------------------------
(* Bounds and input alphabets                                              *)

MaxNameLen == 2
MaxArgs == 2

\* all strings over chars of length at most n
RECURSIVE Strings(_, _)
Strings(chars, n) ==
    IF n = 0 THEN {""}
    ELSE LET S == Strings(chars, n - 1) IN S \cup {s \o c : s \in S, c \in chars}

LibNames ==
    Strings({"i", "b", "z"}, MaxNameLen)
        \cup {"foo", "ibus", "inker", "ink-defaultlib-shared", "pthread", "m"}

ImplibNames ==
    Strings({"x", ",", " "}, MaxNameLen) \cup {"x.lib", "dir/libfoo.dll.a", " x.lib", "a.lib,b"}

WlBodies == Strings({"a", ",", " "}, MaxNameLen) \cup {"-rpath,/x", "--as-needed", " -s ,/x "}

FileStems == Strings({"f", "-", "/"}, MaxNameLen)

OtherTokens ==
    {"", "-pthread", "-fstack-protector", "-fstack-protector-strong", "-DFOO=1", "-D",
     "-link-defaultlib-shared", "-linker=gold", "-link-internally",
     "-linkonce-templates", "-lib",
     "-isystem", "-isystem=/inc", "-isystem/inc", "-isystem /inc",
     "-L/x", "-L/x/libf.a", "-L./y.lib", "-L./y", "-Lx", "-L=/x/libf.a", "-L/.a",
     "-mscrtlib=", "-mscrtlib=msvcrt", "-mscrtlib=msvcrtd", "-mscrtlib=libcmt",
     "-mscrtlib=LIBCMT", "-mscrtlib=libcmtd", "-mscrtlib=MSVCRT",
     "-install_name", "-install_name,@rpath/x",
     "-Wl,--out-implib=a,-s,--out-implib= b ", "-Wl, --out-implib=x",
     "-O2", "-g", "-I/inc", "-I=/inc", "main.d", "lib", "a", "-"}

Tokens ==
    {"-l" \o n : n \in LibNames}
        \cup {"-Wl,--out-implib=" \o x : x \in ImplibNames}
        \cup {"-Wl," \o b : b \in WlBodies}
        \cup {f \o e : f \in FileStems, e \in {".a", ".lib", ".so"}}
        \cup {"-L" \o d \o f \o e :
                  d \in {"/", "./"}, f \in FileStems, e \in {".a", ".lib", ".so", ""}}
        \cup OtherTokens

\* one token per rule of the translation, for the vectors of several tokens
VecTokens ==
    {"-Wl,--out-implib=x.lib,-s", "-pthread", "-Wl,-rpath,/x", "-lfoo",
     "-mscrtlib=msvcrt", "-install_name", "libz.a", "-O2"}

RECURSIVE Vectors(_, _)
Vectors(S, n) ==
    IF n = 0 THEN {<<>>}
    ELSE LET V == Vectors(S, n - 1) IN V \cup {Append(v, t) : v \in V, t \in S}

ArgVectors == {<<t>> : t \in Tokens} \cup Vectors(VecTokens, MaxArgs)

MaxVals == 3
MaxKeys == 3

\* the values of a 'debug' or 'versions' list: integers, digit strings and
\* identifier strings
FeatureValues ==
    {IntVal(n) : n \in {-1, 0, 1, 3}}
        \cup {StrVal(x) : x \in {"07", "10"}}
        \cup {StrVal(x) : x \in {"foo", "bar", "x1"}}

\* the value of a key of kwargs: b for 'unittest', vals for 'debug' and
\* 'versions' (a value that is no list is the list of that one value after
\* "x = [x]"; islist remembers which it was), dirs for 'import_dirs'
BoolValue(b) == [b |-> b, islist |-> FALSE, vals |-> <<>>, dirs |-> <<>>]
ListValue(vs) == [b |-> FALSE, islist |-> TRUE, vals |-> vs, dirs |-> <<>>]
ScalarValue(v) == [b |-> FALSE, islist |-> FALSE, vals |-> <<v>>, dirs |-> <<>>]
DirsValue(ds) == [b |-> FALSE, islist |-> TRUE, vals |-> <<>>, dirs |-> ds]

IncludeDirs(curdir, incdirs) == [curdir |-> curdir, incdirs |-> incdirs]

FeatureKeys == {"unittest", "debug", "versions", "import_dirs"}
RequestKeys == FeatureKeys \cup {"bogus", "extra"}

\* the values a key takes in the requests of several keys
FewValues(key) ==
    CASE key = "unittest" -> {BoolValue(TRUE), BoolValue(FALSE)}
      [] key = "debug" -> {ScalarValue(IntVal(3)), ListValue(<<StrVal("foo"), IntVal(0)>>)}
      [] key = "versions" ->
            {ScalarValue(StrVal("v")), ListValue(<<IntVal(3), StrVal("07"), StrVal("bar")>>)}
      [] key = "import_dirs" ->
            {DirsValue(<<IncludeDirs("sub", <<"", "inc">>)>>),
             DirsValue(<<IncludeDirs("sub", <<".">>), IncludeDirs("", <<"a", "/abs">>)>>)}
      [] OTHER -> {BoolValue(TRUE)}

\* the requests of at most n keys, in every insertion order
RECURSIVE RequestsOf(_)
RequestsOf(n) ==
    IF n = 0 THEN {<<>>}
    ELSE LET R == RequestsOf(n - 1)
         IN  R \cup UNION {{Append(r, [k |-> key, v |-> val]) :
                                r \in R, val \in FewValues(key)} : key \in RequestKeys}

DistinctKeys(r) == \A m, n \in 1..Len(r) : r[m].k = r[n].k => m = n

\* the requests of one 'debug' or 'versions' key with every list of values
LevelRequests ==
    {<<[k |-> key, v |-> ListValue(vs)]>> :
        key \in {"debug", "versions"}, vs \in Vectors(FeatureValues, MaxVals)}
      \cup {<<[k |-> key, v |-> ScalarValue(val)]>> :
               key \in {"debug", "versions"}, val \in FeatureValues}

Requests == {r \in RequestsOf(MaxKeys) : DistinctKeys(r)} \cup LevelRequests

BuildToSrc == {"..", "../src/"}

\* the parameters of compute_parameters_with_absolute_paths: every prefix the
\* two families test with relative, absolute, dotted and empty paths, and
\* tokens no family rewrites
MaxParams == 2

PathPrefixes == {"-I=", "-L-L", "-L=-L", "-Wl,-L", "-I", "-L", "-O"}
PathSuffixes == {"", "x", "/x/", "../x", "./a//x", "a/../..", "//x"}
PathTokens == {p \o q : p \in PathPrefixes, q \in PathSuffixes} \cup {"", "-", "x", "-Wl,-"}
FewPathTokens == {"-I=inc", "-L-L../lib", "-L=-L/lib", "-Wl,-Lx", "-Iinc", "-L.", "-O2"}
ParameterLists == {<<t>> : t \in PathTokens} \cup Vectors(FewPathTokens, MaxParams)
BuildDirs == {"/b", "b/c/", ""}

\* the diagnostic streams of the include-directory probe: up to MaxLines lines,
\* each a marker, a path line or an empty line, joined by newlines
MaxLines == 5

LineKinds == {QuoteMarker, AngleMarker, EndMarker, " /a", ""}
Stderrs == {JoinWith(ls, "\n") : ls \in Vectors(LineKinds, MaxLines)}

\* the exit statuses of a process: success, failures, death by a signal
ExitCodes == {0, 1, 2, -11}

\* the versions the compilers report
Versions == {"3.12.0", "4.8.5", "4.9.0", "4.10.1", "7.1.0"}

OptimizationLevels == {"0", "g", "1", "2", "3", "s"}
ColorTypes == {"auto", "always", "never"}

----------------------------------------------------------------------------
(* State                                                                   *)

VARIABLES
    self,       \* the compiler object: class, id, version, version gates
    pc,         \* "idle" | "loop" | "body" | "returned" | "raised"
    method,     \* the method being executed, "" when idle
    host,       \* the platform is_windows()/is_osx() report to the call
    args,       \* translate_args_to_nongnu: the input vector
    idx,        \* translate_args_to_nongnu: position of the loop in args
    dcargs,     \* translate_args_to_nongnu: the output built so far
    prov,       \* for each token of dcargs, the position in args it came from
    option,     \* the optimization_level or colortype of a lookup, "" otherwise
    kwargs,     \* get_feature_args: the caller's dict, which the call changes
    request,    \* get_feature_args: kwargs as it was passed
    build_to_src, \* get_feature_args: the path from the build to the source tree
    ret,        \* the returned argument vector
    exc,        \* the message of the raised EnvironmentException, "" if none
    parameter_list, \* compute_parameters_with_absolute_paths: the caller's list
    passed,     \* compute_parameters_with_absolute_paths: the list as passed
    build_dir,  \* compute_parameters_with_absolute_paths: the build directory
    lines,      \* gnulike_default_include_dirs: stderr.split('\n')
    paths,      \* gnulike_default_include_dirs: the returned list
    path_line,  \* for each element of paths, the index of the line it came from
    warnings,   \* the messages given to mlog.warning
    compile_rc, \* sanity_check: pc.returncode of the compiler, -1 before it ran
    run_rc,     \* sanity_check: the exit status of the executable, -1 before
    compiles,   \* sanity_check: how many times the compiler was started
    runs        \* sanity_check: how many times the executable was started

pathVars == <<parameter_list, passed, build_dir>>
probeVars == <<lines, paths, path_line, warnings>>
sanityVars == <<compile_rc, run_rc, compiles, runs>>

vars == <<self, pc, method, host, args, idx, dcargs, prov, option, kwargs, request,
          build_to_src, ret, exc, pathVars, probeVars, sanityVars>>

\* the objects the three constructors make; only GnuDCompiler.__init__ sets
\* the two version gates
GnuDCompiler(version) ==
    [cls |-> "GnuDCompiler", id |-> "gcc", exelist |-> <<"gdc">>, version |-> version,
     compiler_type |-> "", language |-> "d",
     _has_color_support |-> version_compare_ge(version, "4.9"),
     _has_deps_support |-> version_compare_ge(version, "7.1")]

LLVMDCompiler(version) ==
    [cls |-> "LLVMDCompiler", id |-> "llvm", exelist |-> <<"ldc2">>, version |-> version,
     compiler_type |-> "", language |-> "d",
     _has_color_support |-> FALSE, _has_deps_support |-> FALSE]

DmdDCompiler(version) ==
    [cls |-> "DmdDCompiler", id |-> "dmd", exelist |-> <<"dmd">>, version |-> version,
     compiler_type |-> "", language |-> "d",
     _has_color_support |-> FALSE, _has_deps_support |-> FALSE]

\* a compiler of the GNU family that is no D compiler (GnuCompiler.__init__):
\* it has a compiler_type, which the D compilers never set
CompilerTypes == {"windows", "osx", "standard"}

GnuCompiler(compiler_type) ==
    [cls |-> "GnuCompiler", id |-> "gcc", exelist |-> <<"gcc">>, version |-> "9.2.0",
     compiler_type |-> compiler_type, language |-> "cpp",
     _has_color_support |-> FALSE, _has_deps_support |-> FALSE]

Compilers ==
    {GnuDCompiler(v) : v \in Versions}
        \cup {LLVMDCompiler("1.18.0"), DmdDCompiler("2.88.0")}
        \cup {GnuCompiler(t) : t \in CompilerTypes}

Init ==
    /\ self \in Compilers
    /\ pc = "idle"
    /\ method = ""
    /\ host = "other"
    /\ args = <<>>
    /\ idx = 1
    /\ dcargs = <<>>
    /\ prov = <<>>
    /\ option = ""
    /\ kwargs = <<>>
    /\ request = <<>>
    /\ build_to_src = ""
    /\ ret = <<>>
    /\ exc = ""
    /\ parameter_list = <<>>
    /\ passed = <<>>
    /\ build_dir = ""
    /\ lines = <<>>
    /\ paths = <<>>
    /\ path_line = <<>>
    /\ warnings = <<>>
    /\ compile_rc = -1
    /\ run_rc = -1
    /\ compiles = 0
    /\ runs = 0

\* cls.translate_args_to_nongnu(args): entry, dcargs = []
translate_args_to_nongnu_call ==
    /\ pc = "idle"
    /\ self.cls \in DmdLikeClasses
    /\ \E h \in Hosts, a \in ArgVectors :
        /\ host' = h
        /\ args' = a
    /\ pc' = "loop"
    /\ method' = "translate_args_to_nongnu"
    /\ idx' = 1
    /\ dcargs' = <<>>
    /\ prov' = <<>>
    /\ UNCHANGED <<pathVars, probeVars, sanityVars, self, option, kwargs, request, build_to_src, ret, exc>>

\* one iteration of "for arg in args"
translate_args_to_nongnu_step ==
    /\ pc = "loop"
    /\ method = "translate_args_to_nongnu"
    /\ idx <= Len(args)
    /\ LET out == TranslateArg(self.cls, host, args[idx])
       IN  /\ dcargs' = Extend(dcargs, out)
           /\ prov' = Extend(prov, [j \in 1..Len(out) |-> idx])
    /\ idx' = idx + 1
    /\ UNCHANGED <<pathVars, probeVars, sanityVars, self, pc, method, host, args, option, kwargs, request, build_to_src,
                   ret, exc>>

\* "return dcargs"
translate_args_to_nongnu_return ==
    /\ pc = "loop"
    /\ method = "translate_args_to_nongnu"
    /\ idx > Len(args)
    /\ ret' = dcargs
    /\ pc' = "returned"
    /\ UNCHANGED <<pathVars, probeVars, sanityVars, self, method, host, args, idx, dcargs, prov, option, kwargs, request,
                   build_to_src, exc>>

\* the method resolution order: DmdLikeCompilerMixin comes before DCompiler in
\* the bases of LLVMDCompiler and DmdDCompiler; GnuDCompiler has DCompiler's
get_feature_args(obj, kw, b2s) ==
    IF obj.cls \in DmdLikeClasses
    THEN DmdLike_get_feature_args(obj, kw, b2s)
    ELSE DCompiler_get_feature_args(obj, kw, b2s)

\* self.get_feature_args(kwargs, build_to_src): entry
get_feature_args_call ==
    /\ pc = "idle"
    /\ self.cls \in Classes
    /\ \E r \in Requests, b \in BuildToSrc :
        /\ kwargs' = r
        /\ request' = r
        /\ build_to_src' = b
    /\ pc' = "body"
    /\ method' = "get_feature_args"
    /\ UNCHANGED <<pathVars, probeVars, sanityVars, self, host, args, idx, dcargs, prov, option, ret, exc>>

\* the body runs to "return res"
get_feature_args_return ==
    /\ pc = "body"
    /\ method = "get_feature_args"
    /\ LET st == get_feature_args(self, kwargs, build_to_src)
       IN  /\ st.exc = ""
           /\ kwargs' = st.kwargs
           /\ ret' = st.res
    /\ pc' = "returned"
    /\ UNCHANGED <<pathVars, probeVars, sanityVars, self, method, host, args, idx, dcargs, prov, option, request,
                   build_to_src, exc>>

\* the body runs to a "raise EnvironmentException(...)"
get_feature_args_raise ==
    /\ pc = "body"
    /\ method = "get_feature_args"
    /\ LET st == get_feature_args(self, kwargs, build_to_src)
       IN  /\ st.exc # ""
           /\ kwargs' = st.kwargs
           /\ exc' = st.exc
    /\ pc' = "raised"
    /\ UNCHANGED <<pathVars, probeVars, sanityVars, self, method, host, args, idx, dcargs, prov, option, request,
                   build_to_src, ret>>

\* self.get_optimization_args(optimization_level)
get_optimization_args_call ==
    /\ pc = "idle"
    /\ self.cls \in Classes
    /\ \E level \in OptimizationLevels :
        /\ option' = level
        /\ ret' = get_optimization_args(self, level)
    /\ pc' = "returned"
    /\ method' = "get_optimization_args"
    /\ UNCHANGED <<pathVars, probeVars, sanityVars, self, host, args, idx, dcargs, prov, kwargs, request, build_to_src, exc>>

\* self.get_colorout_args(colortype)
get_colorout_args_call ==
    /\ pc = "idle"
    /\ self.cls \in Classes
    /\ \E colortype \in ColorTypes :
        /\ option' = colortype
        /\ ret' = get_colorout_args(self, colortype)
    /\ pc' = "returned"
    /\ method' = "get_colorout_args"
    /\ UNCHANGED <<pathVars, probeVars, sanityVars, self, host, args, idx, dcargs, prov, kwargs, request, build_to_src, exc>>

\* self.get_coverage_args()
get_coverage_args_call ==
    /\ pc = "idle"
    /\ self.cls \in Classes
    /\ ret' = get_coverage_args(self)
    /\ pc' = "returned"
    /\ method' = "get_coverage_args"
    /\ UNCHANGED <<pathVars, probeVars, sanityVars, self, host, args, idx, dcargs, prov, option, kwargs, request,
                   build_to_src, exc>>

\* self.get_pic_args()
get_pic_args_call ==
    /\ pc = "idle"
    /\ \E h \in Hosts :
        /\ host' = h
        /\ ret' = get_pic_args(self, h)
    /\ pc' = "returned"
    /\ method' = "get_pic_args"
    /\ UNCHANGED <<pathVars, probeVars, sanityVars, self, args, idx, dcargs, prov, option,
                   kwargs, request, build_to_src, exc>>

\* self.compute_parameters_with_absolute_paths(parameter_list, build_dir): the
\* list is changed in place and returned
compute_parameters_with_absolute_paths_call ==
    /\ pc = "idle"
    /\ \E pl \in ParameterLists, bd \in BuildDirs :
        /\ passed' = pl
        /\ build_dir' = bd
        /\ parameter_list' = compute_parameters_with_absolute_paths(self, pl, bd)
        /\ ret' = compute_parameters_with_absolute_paths(self, pl, bd)
    /\ pc' = "returned"
    /\ method' = "compute_parameters_with_absolute_paths"
    /\ UNCHANGED <<probeVars, sanityVars, self, host, args, idx, dcargs, prov, option,
                   kwargs, request, build_to_src, exc>>

\* gnulike_default_include_dirs(self.exelist, self.language), called by
\* GnuLikeCompiler.get_default_include_dirs; stderr is what the compiler wrote
gnulike_default_include_dirs_call ==
    /\ pc = "idle"
    /\ self.id = "gcc"
    /\ \E stderr \in Stderrs :
        LET scan == ScanLines(SplitAt(stderr, "\n"), 1, 0, <<>>, <<>>) IN
        /\ lines' = SplitAt(stderr, "\n")
        /\ paths' = scan.paths
        /\ path_line' = scan.path_line
        /\ warnings' = ProbeWarnings(scan.paths, ProbeCmd(self.exelist, self.language))
        /\ ret' = scan.paths
    /\ pc' = "returned"
    /\ method' = "gnulike_default_include_dirs"
    /\ UNCHANGED <<pathVars, sanityVars, self, host, args, idx, dcargs, prov, option,
                   kwargs, request, build_to_src, exc>>

\* self.sanity_check(work_dir, environment): sanity.d is written
sanity_check_call ==
    /\ pc = "idle"
    /\ self.cls \in Classes
    /\ pc' = "compile"
    /\ method' = "sanity_check"
    /\ UNCHANGED <<pathVars, probeVars, sanityVars, self, host, args, idx, dcargs, prov,
                   option, kwargs, request, build_to_src, ret, exc>>

\* pc = subprocess.Popen(...); pc.wait(): the compiler exits with some status
sanity_check_compile ==
    /\ pc = "compile"
    /\ \E returncode \in ExitCodes : compile_rc' = returncode
    /\ compiles' = compiles + 1
    /\ pc' = "compiled"
    /\ UNCHANGED <<pathVars, probeVars, run_rc, runs, self, method, host, args, idx, dcargs,
                   prov, option, kwargs, request, build_to_src, ret, exc>>

\* raise EnvironmentException('D compiler %s can not compile programs.')
sanity_check_compile_raise ==
    /\ pc = "compiled"
    /\ CompileFailed(compile_rc)
    /\ exc' = CanNotCompile(self)
    /\ pc' = "raised"
    /\ UNCHANGED <<pathVars, probeVars, sanityVars, self, method, host, args, idx, dcargs,
                   prov, option, kwargs, request, build_to_src, ret>>

\* subprocess.call(output_name): the executable exits with some status
sanity_check_run ==
    /\ pc = "compiled"
    /\ ~CompileFailed(compile_rc)
    /\ \E status \in ExitCodes : run_rc' = status
    /\ runs' = runs + 1
    /\ pc' = "ran"
    /\ UNCHANGED <<pathVars, probeVars, compile_rc, compiles, self, method, host, args, idx,
                   dcargs, prov, option, kwargs, request, build_to_src, ret, exc>>

\* raise EnvironmentException('Executables created by D compiler %s are not runnable.')
sanity_check_run_raise ==
    /\ pc = "ran"
    /\ RunFailed(run_rc)
    /\ exc' = NotRunnable(self)
    /\ pc' = "raised"
    /\ UNCHANGED <<pathVars, probeVars, sanityVars, self, method, host, args, idx, dcargs,
                   prov, option, kwargs, request, build_to_src, ret>>

\* the end of sanity_check: None is returned
sanity_check_return ==
    /\ pc = "ran"
    /\ ~RunFailed(run_rc)
    /\ pc' = "returned"
    /\ UNCHANGED <<pathVars, probeVars, sanityVars, self, method, host, args, idx, dcargs,
                   prov, option, kwargs, request, build_to_src, ret, exc>>

\* the caller takes the result; the object is ready for the next call
Finish ==
    /\ pc \in {"returned", "raised"}
    /\ pc' = "idle"
    /\ method' = ""
    /\ host' = "other"
    /\ args' = <<>>
    /\ idx' = 1
    /\ dcargs' = <<>>
    /\ prov' = <<>>
    /\ option' = ""
    /\ kwargs' = <<>>
    /\ request' = <<>>
    /\ build_to_src' = ""
    /\ ret' = <<>>
    /\ exc' = ""
    /\ parameter_list' = <<>>
    /\ passed' = <<>>
    /\ build_dir' = ""
    /\ lines' = <<>>
    /\ paths' = <<>>
    /\ path_line' = <<>>
    /\ warnings' = <<>>
    /\ compile_rc' = -1
    /\ run_rc' = -1
    /\ compiles' = 0
    /\ runs' = 0
    /\ UNCHANGED self

Next ==
    \/ translate_args_to_nongnu_call
    \/ translate_args_to_nongnu_step
    \/ translate_args_to_nongnu_return
    \/ get_feature_args_call
    \/ get_feature_args_return
    \/ get_feature_args_raise
    \/ get_optimization_args_call
    \/ get_colorout_args_call
    \/ get_coverage_args_call
    \/ get_pic_args_call
    \/ sanity_check_call
    \/ sanity_check_compile
    \/ sanity_check_compile_raise
    \/ sanity_check_run
    \/ sanity_check_run_raise
    \/ sanity_check_return
    \/ gnulike_default_include_dirs_call
    \/ compute_parameters_with_absolute_paths_call
    \/ Finish

Spec == Init /\ [][Next]_vars

----------------------------------------------------------------------------
(* Claims about translate_args_to_nongnu                                   *)

InTranslate == method = "translate_args_to_nongnu"
TranslateReturned == InTranslate /\ pc = "returned"

\* the positions of dcargs that came from the input token at position i
OutputsOf(i) == {j \in 1..Len(dcargs) : prov[j] = i}

\* the token matches the pattern of one of the rewrite, drop or verbatim rules
\* of the translation on host h
MatchesSomeRule(h, t) ==
    \/ h = "windows" /\ (StartsWith(t, "-Wl,") \/ StartsWith(t, "-mscrtlib="))
    \/ h = "osx" /\ StartsWith(t, "-install_name")
    \/ t = "-pthread"
    \/ StartsWith(t, "-fstack-protector")
    \/ StartsWith(t, "-D")
    \/ StartsWith(t, "-Wl,")
    \/ StartsWith(t, "-l")
    \/ StartsWith(t, "-isystem")
    \/ StartsWith(t, "-L/") \/ StartsWith(t, "-L./")
    \/ ~StartsWith(t, "-") /\ (EndsWith(t, ".a") \/ EndsWith(t, ".lib"))

\* C1: on every host, a token that matches none of the rules is never deleted:
\* it appears unchanged, exactly once, in the output, and the output tokens
\* keep the relative order of the input tokens they were derived from.
C1_UnmatchedPassThroughInOrder ==
    InTranslate =>
        /\ Len(prov) = Len(dcargs)
        /\ \A j \in 1..(Len(prov) - 1) : prov[j] <= prov[j + 1]
        /\ \A i \in 1..(idx - 1) :
              ~MatchesSomeRule(host, args[i]) =>
                  /\ Cardinality(OutputsOf(i)) = 1
                  /\ \A j \in OutputsOf(i) : dcargs[j] = args[i]

\* C1 witness: a vector whose unmatched token follows a rewritten one has been
\* translated, and the unmatched token is in the output after the rewritten one
C1_Witness ==
    /\ TranslateReturned
    /\ args = <<"-lfoo", "-O2">>
    /\ ret = <<"-L=-lfoo", "-O2">>

\* C2 as stated: on every host, ['-lNAME'] is translated to ['-L=-lNAME'] for
\* every library name NAME.
C2_Original_EveryShortLibFlagWrapped ==
    (TranslateReturned /\ Len(args) = 1 /\ StartsWith(args[1], "-l"))
        => ret = <<"-L=" \o args[1]>>

\* C2 amended: on every host, ['-lNAME'] is translated to ['-L=-lNAME'] for
\* every NAME for which '-lNAME' does not start with one of the linker-control
\* prefixes -link-defaultlib, -linker, -link-internally, -linkonce-templates,
\* -lib; with such a prefix the token is returned verbatim.
C2_ShortLibFlagWrapped ==
    (TranslateReturned /\ Len(args) = 1 /\ StartsWith(args[1], "-l"))
        => IF \E p \in {"-link-defaultlib", "-linker", "-link-internally",
                        "-linkonce-templates", "-lib"} : StartsWith(args[1], p)
           THEN ret = args
           ELSE ret = <<"-L=" \o args[1]>>

C2_Witness ==
    /\ TranslateReturned
    /\ args = <<"-lfoo">>
    /\ ret = <<"-L=-lfoo">>

\* the import-library name of a token '-Wl,--out-implib=X'
ImplibNameOf(t) == From(t, Len("-Wl,--out-implib="))

HasComma(x) == \E k \in 1..Len(x) : SubSeq(x, k, k) = ","
HasOuterSpace(x) ==
    x # "" /\ (SubSeq(x, 1, 1) \in {" ", "\t"} \/ SubSeq(x, Len(x), Len(x)) \in {" ", "\t"})

ImplibCall ==
    /\ TranslateReturned
    /\ host = "windows"
    /\ Len(args) = 1
    /\ StartsWith(args[1], "-Wl,--out-implib=")

\* C3 as stated: on Windows, ['-Wl,--out-implib=X'] is translated to exactly
\* ['-L=/IMPLIB:X'] for every X.
C3_Original_ImplibExact ==
    ImplibCall => ret = <<"-L=/IMPLIB:" \o ImplibNameOf(args[1])>>

\* C3 amended: on Windows, for every X that contains no comma and has no
\* leading or trailing whitespace, ['-Wl,--out-implib=X'] is translated to
\* exactly ['-L=/IMPLIB:X']; the generic '-Wl,' unwrapping is not applied too.
C3_ImplibExact ==
    (ImplibCall /\ ~HasComma(ImplibNameOf(args[1])) /\ ~HasOuterSpace(ImplibNameOf(args[1])))
        => ret = <<"-L=/IMPLIB:" \o ImplibNameOf(args[1])>>

C3_Witness ==
    /\ ImplibCall
    /\ args = <<"-Wl,--out-implib=x.lib">>
    /\ ret = <<"-L=/IMPLIB:x.lib">>

BareLibrary(t) == ~StartsWith(t, "-") /\ (EndsWith(t, ".a") \/ EndsWith(t, ".lib"))

\* C4: on every host, a bare filename token (no leading '-') ending in '.a' or
\* '.lib' is translated to exactly one token, '-L=' followed by the filename.
C4_BareLibraryWrapped ==
    InTranslate =>
        \A i \in 1..(idx - 1) :
            BareLibrary(args[i]) =>
                /\ Cardinality(OutputsOf(i)) = 1
                /\ \A j \in OutputsOf(i) : dcargs[j] = "-L=" \o args[i]

C4_Witness ==
    /\ TranslateReturned
    /\ args = <<"f.a">>
    /\ ret = <<"-L=f.a">>

----------------------------------------------------------------------------
(* Claims about get_feature_args                                           *)

FeatureReturned == method = "get_feature_args" /\ pc = "returned"
FeatureRaised == method = "get_feature_args" /\ pc = "raised"

\* the values passed for a key of the request, "debug" or "versions"
Requested(key) ==
    (CHOOSE e \in {request[n] : n \in 1..Len(request)} : e.k = key).v.vals

Asks(key) == \E n \in 1..Len(request) : request[n].k = key

\* the flag of the family for the key
FlagOf(key) ==
    IF key = "debug" THEN
        (IF self.id = "gcc" THEN "-fdebug" ELSE IF self.id = "llvm" THEN "-d-debug" ELSE "-debug")
    ELSE
        (IF self.id = "gcc" THEN "-fversion" ELSE IF self.id = "llvm" THEN "-d-version" ELSE "-version")

AllDigits(x) ==
    x # "" /\ \A k \in 1..Len(x) :
        SubSeq(x, k, k) \in {"0", "1", "2", "3", "4", "5", "6", "7", "8", "9"}

IsNumeric(d) == d.t = "int" \/ AllDigits(d.s)
NumberOf(d) == IF d.t = "int" THEN d.i ELSE ParseInt(d.s)

\* the identifier strings among the values, in input order
Identifiers(vals) == SelectSeq(vals, LAMBDA d : ~IsNumeric(d))

\* the numbers among the values
Numbers(vals) == {NumberOf(vals[n]) : n \in {m \in 1..Len(vals) : IsNumeric(vals[m])}}

Maximum(S) == CHOOSE m \in S : \A x \in S : x <= m

\* the tokens of the result that carry the flag of the key, in output order
TokensOf(key) == SelectSeq(ret, LAMBDA t : StartsWith(t, FlagOf(key) \o "="))

\* what follows 'FLAG=' in a token of the key
Payload(key, t) == From(t, Len(FlagOf(key)) + 1)

NumericTokens(key) == SelectSeq(TokensOf(key), LAMBDA t : AllDigits(Payload(key, t)))

\* C5: for each family and each of the keys debug and versions, there is one
\* 'FLAG=identifier' token per identifier value, in input order, and the
\* numeric token, when there is one, comes after all of them.
C5_IdentifiersInOrderThenLevel ==
    FeatureReturned =>
        \A key \in {"debug", "versions"} :
            Asks(key) =>
                LET ids == Identifiers(Requested(key))
                    toks == TokensOf(key)
                IN  /\ Len(toks) \in {Len(ids), Len(ids) + 1}
                    /\ \A n \in 1..Len(ids) : toks[n] = FlagOf(key) \o "=" \o ids[n].s
                    /\ Len(toks) = Len(ids) + 1 => AllDigits(Payload(key, toks[Len(toks)]))

\* C5 witness: debug [1, 3, 'foo'] has given [FLAG=foo, FLAG=3]
C5_Witness ==
    /\ FeatureReturned
    /\ self.id = "dmd"
    /\ request = <<[k |-> "debug", v |-> ListValue(<<IntVal(1), IntVal(3), StrVal("foo")>>)]>>
    /\ ret = <<"-debug=foo", "-debug=3">>

\* C6 as stated: if at least one value is numeric there is exactly one numeric
\* token, FLAG=m with m the maximum of the numeric values; if none is, there is
\* no numeric token.
C6_Original_OneMaxTokenIffNumeric ==
    FeatureReturned =>
        \A key \in {"debug", "versions"} :
            Asks(key) =>
                LET nums == Numbers(Requested(key))
                    toks == NumericTokens(key)
                IN  IF nums # {}
                    THEN Len(toks) = 1 /\ ParseInt(Payload(key, toks[1])) = Maximum(nums)
                    ELSE toks = <<>>

\* C6 amended: if at least one value is numeric and the maximum m of the
\* numeric values is not negative, there is exactly one numeric token, FLAG=m
\* in decimal without leading zeros; if no value is numeric, or every numeric
\* value is a negative integer, there is no numeric token.
C6_OneMaxTokenIffLevel ==
    FeatureReturned =>
        \A key \in {"debug", "versions"} :
            Asks(key) =>
                LET nums == Numbers(Requested(key))
                    toks == NumericTokens(key)
                IN  IF nums # {} /\ Maximum(nums) >= 0
                    THEN /\ Len(toks) = 1
                         /\ ParseInt(Payload(key, toks[1])) = Maximum(nums)
                         /\ (Len(Payload(key, toks[1])) > 1
                                => SubSeq(Payload(key, toks[1]), 1, 1) # "0")
                    ELSE toks = <<>>

\* C6 witness: versions ['07', 3, '10'] has given the one token FLAG=10
C6_Witness ==
    /\ FeatureReturned
    /\ self.id = "gcc"
    /\ request = <<[k |-> "versions",
                    v |-> ListValue(<<StrVal("07"), IntVal(3), StrVal("10")>>)]>>
    /\ ret = <<"-fversion=10">>

Recognized == {"unittest", "debug", "versions", "import_dirs"}

\* the keys of the request that are not recognized, in insertion order
UnknownKeys == SelectSeq(request, LAMBDA e : e.k \notin Recognized)

RECURSIVE CommaList(_)
CommaList(es) ==
    IF es = <<>> THEN ""
    ELSE IF Len(es) = 1 THEN es[1].k ELSE es[1].k \o ", " \o CommaList(Tail(es))

\* C7: the call fails with the unknown-feature error if and only if the
\* request has a key outside {unittest, debug, versions, import_dirs}; the
\* message names every unrecognized key and no recognized one, and at the
\* failure every recognized key has been removed from the request.
C7_UnknownFeatureIffUnrecognizedKey ==
    /\ FeatureReturned => UnknownKeys = <<>> /\ exc = ""
    /\ FeatureRaised =>
          /\ UnknownKeys # <<>>
          /\ exc = "Unknown D compiler feature(s) selected: " \o CommaList(UnknownKeys)
          /\ kwargs = UnknownKeys
          /\ \A n \in 1..Len(kwargs) : kwargs[n].k \notin Recognized

\* C7 witness: a request with a recognized key between two unrecognized ones
\* has failed, and the two are what is left of it
C7_Witness ==
    /\ FeatureRaised
    /\ Len(request) = 3
    /\ request[1].k = "bogus"
    /\ request[2].k = "debug"
    /\ request[3].k = "extra"
    /\ exc = "Unknown D compiler feature(s) selected: bogus, extra"
    /\ Len(kwargs) = 2

----------------------------------------------------------------------------
(* Claims about the flag tables and the gates                              *)

Returned(m) == method = m /\ pc = "returned"

\* C8 as stated: the levels 'g' and '0' give the empty vector in the gcc and
\* llvm families; dmd gives the empty vector for 'g' and '0' and one and the
\* same single flag for each of 1, 2, 3 and s.
C8_Original_NoFlagForGAnd0 ==
    Returned("get_optimization_args") =>
        /\ (self.id \in {"gcc", "llvm"} /\ option \in {"g", "0"}) => ret = <<>>
        /\ self.id = "dmd" => ret = IF option \in {"g", "0"} THEN <<>> ELSE <<"-O">>

\* C8 amended: the level '0' gives the empty vector in the gcc and llvm
\* families; the level 'g' gives the empty vector in llvm and ['-Og'] in gcc;
\* dmd gives the empty vector for 'g' and '0' and one and the same single flag
\* (-O) for each of 1, 2, 3 and s.
C8_OptimizationTables ==
    Returned("get_optimization_args") =>
        /\ (self.id \in {"gcc", "llvm"} /\ option = "0") => ret = <<>>
        /\ (self.id = "llvm" /\ option = "g") => ret = <<>>
        /\ (self.id = "gcc" /\ option = "g") => ret = <<"-Og">>
        /\ self.id = "dmd" => ret = IF option \in {"g", "0"} THEN <<>> ELSE <<"-O">>

C8_Witness ==
    /\ Returned("get_optimization_args")
    /\ self.id = "dmd"
    /\ option = "s"
    /\ ret = <<"-O">>

\* the version of the compiler is at least 4.9
AtLeast4_9 ==
    LET v == VersionParts(self.version)
    IN  v[1] > 4 \/ (v[1] = 4 /\ v[2] >= 9)

\* C9: for every mode, GnuDCompiler.get_colorout_args(mode) returns
\* ['-fdiagnostics-color=<mode>'] when the version is at least 4.9 and the
\* empty vector when it is lower.
C9_ColorGatedByVersion ==
    (Returned("get_colorout_args") /\ self.cls = "GnuDCompiler") =>
        ret = IF AtLeast4_9 THEN <<"-fdiagnostics-color=" \o option>> ELSE <<>>

\* C10 as stated: GnuDCompiler.get_coverage_args fails with an error and
\* returns no argument vector; llvm and dmd return ['-cov'].
C10_Original_CoverageHardGated ==
    method = "get_coverage_args" =>
        IF self.cls = "GnuDCompiler" THEN pc = "raised" /\ exc # ""
        ELSE pc = "returned" /\ ret = <<"-cov">>

\* C10 amended: coverage is soft-gated: GnuDCompiler.get_coverage_args raises
\* nothing and returns the empty vector; llvm and dmd return ['-cov'].
C10_CoverageSoftGated ==
    method = "get_coverage_args" =>
        /\ pc = "returned"
        /\ exc = ""
        /\ ret = IF self.cls = "GnuDCompiler" THEN <<>> ELSE <<"-cov">>

C10_Witness ==
    /\ Returned("get_coverage_args")
    /\ self.cls = "GnuDCompiler"
    /\ ret = <<>>

----------------------------------------------------------------------------
(* Claims about get_pic_args                                               *)

\* the call runs on Windows: the compiler_type of a GNU-like compiler is a
\* Windows one, the host of a D compiler is Windows
OnWindows ==
    IF self.cls = "GnuCompiler" THEN self.compiler_type = "windows" ELSE host = "windows"

\* C11: on Windows, get_pic_args returns the empty vector for every compiler
\* family (GNU-like, GNU D, DMD and LLVM D).
C11_NoPicFlagOnWindows ==
    (Returned("get_pic_args") /\ OnWindows) => ret = <<>>

----------------------------------------------------------------------------
(* Claims about compute_parameters_with_absolute_paths                     *)

\* the path-flag prefixes of the family of the compiler
PathFlagPrefixes ==
    IF self.cls \in DmdLikeClasses THEN {"-I=", "-L-L", "-L=-L", "-Wl,-L"} ELSE {"-I", "-L"}

HasPathFlag(t) == StartsWithAny(t, PathFlagPrefixes)

\* C12: compute_parameters_with_absolute_paths returns a vector as long as
\* its input; a token without a path-flag prefix of the family is the same at
\* the same index, a token with one keeps that prefix.
C12_AbsolutePathsFrame ==
    Returned("compute_parameters_with_absolute_paths") =>
        /\ Len(ret) = Len(passed)
        /\ parameter_list = ret
        /\ \A k \in 1..Len(passed) :
            /\ ~HasPathFlag(passed[k]) => ret[k] = passed[k]
            /\ \A p \in PathFlagPrefixes :
                StartsWith(passed[k], p) => StartsWith(ret[k], p)

\* a call on two tokens that rewrote the first and left the second
C12_Witness ==
    /\ Returned("compute_parameters_with_absolute_paths")
    /\ Len(passed) = 2
    /\ HasPathFlag(passed[1]) /\ ret[1] # passed[1]
    /\ ~HasPathFlag(passed[2]) /\ ret[2] = passed[2]

----------------------------------------------------------------------------
(* Claims about gnulike_default_include_dirs                               *)

ProbeReturned == Returned("gnulike_default_include_dirs")

\* the lines that gave a path
Collected == {path_line[n] : n \in 1..Len(path_line)}

\* the line numbers of the markers
QuoteMarkers == {k \in 1..Len(lines) : lines[k] = QuoteMarker}
AngleMarkers == {k \in 1..Len(lines) : lines[k] = AngleMarker}
EndMarkers == {k \in 1..Len(lines) : lines[k] = EndMarker}

Least(S) == CHOOSE k \in S : \A j \in S : k <= j

\* the angle markers after the first quote marker, and the end markers after
\* the first of those
AngleAfterQuote == {a \in AngleMarkers : QuoteMarkers # {} /\ a > Least(QuoteMarkers)}
EndAfterAngle == {e \in EndMarkers : AngleAfterQuote # {} /\ e > Least(AngleAfterQuote)}

\* C13 as stated: no line before the first quote marker, no marker line, and
\* no line at or after the first end marker that follows the quote marker
\* gives a path.
C13_Original_OnlyBetweenMarkers ==
    ProbeReturned =>
        \A j \in Collected :
            /\ QuoteMarkers # {} /\ j > Least(QuoteMarkers)
            /\ lines[j] \notin {QuoteMarker, AngleMarker}
            /\ \A e \in EndMarkers : e > Least(QuoteMarkers) => j < e

\* C13: the lines that give a path are exactly those after the first quote
\* marker, other than the first angle marker after it, and before the first
\* end marker after that angle marker; each gives the line without its first
\* character. (The end marker counts only in the angle region; a marker
\* repeated inside a region is a path line.)
C13_OnlyBetweenMarkers ==
    ProbeReturned =>
        /\ Collected =
            {j \in 1..Len(lines) :
                /\ QuoteMarkers # {} /\ j > Least(QuoteMarkers)
                /\ AngleAfterQuote # {} => j # Least(AngleAfterQuote)
                /\ EndAfterAngle # {} => j < Least(EndAfterAngle)}
        /\ Len(paths) = Len(path_line)
        /\ \A n \in 1..Len(paths) : paths[n] = From(lines[path_line[n]], 1)
        /\ \A n \in 1..Len(path_line) - 1 : path_line[n] < path_line[n + 1]

\* a stream with a line before the quote marker, a path in the angle region
\* and the end marker: only the path line was collected
C13_Witness ==
    /\ ProbeReturned
    /\ Len(lines) = 5
    /\ lines[1] = " /a" /\ lines[2] = QuoteMarker /\ lines[3] = AngleMarker
    /\ lines[4] = " /a" /\ lines[5] = EndMarker
    /\ paths = <<"/a">>

\* C14: gnulike_default_include_dirs never raises; when no line gave a path
\* it returns the empty list and gives exactly one warning, and when some
\* line gave a path it gives no warning.
C14_WarnIffNoPath ==
    ProbeReturned =>
        /\ exc = ""
        /\ ret = paths
        /\ Collected = {} => (ret = <<>> /\ Len(warnings) = 1)
        /\ Collected # {} => (ret # <<>> /\ warnings = <<>>)

\* a stream with both markers and nothing between them: one warning
C14_Witness ==
    /\ ProbeReturned
    /\ QuoteMarkers # {} /\ AngleAfterQuote # {}
    /\ ret = <<>>
    /\ Len(warnings) = 1

----------------------------------------------------------------------------
(* Claims about sanity_check                                               *)

InSanityCheck == method = "sanity_check"
SanityCheckOver == InSanityCheck /\ pc \in {"returned", "raised"}

\* C15: sanity_check raises its EnvironmentException exactly when the compiler
\* or the executable exits with a status other than 0; the executable is run
\* only after the compiler exited with 0; the compiler and the executable are
\* each started at most once in a call.
C15_SanityCheckOneShot ==
    InSanityCheck =>
        /\ compiles <= 1 /\ runs <= 1
        /\ runs = 1 => (compiles = 1 /\ compile_rc = 0)
        /\ SanityCheckOver =>
            /\ compiles = 1
            /\ pc = "raised" <=> (compile_rc # 0 \/ (runs = 1 /\ run_rc # 0))
            /\ pc = "raised" => exc \in {CanNotCompile(self), NotRunnable(self)}
            /\ exc = CanNotCompile(self) <=> compile_rc # 0
            /\ exc = NotRunnable(self) <=> (runs = 1 /\ run_rc # 0)
            /\ pc = "returned" => exc = ""

\* the compiler exited with 0 and the executable it made did not
C15_Witness ==
    /\ SanityCheckOver
    /\ pc = "raised"
    /\ compile_rc = 0
    /\ runs = 1 /\ run_rc # 0

----------------------------------------------------------------------------
(* Claims about the linker pass-through, search-path, C-runtime and         *)
(* system-include rules of translate_args_to_nongnu                        *)

\* the sub-arguments s1, ..., sn of a token '-Wl,s1,...,sn'
SubArguments(t) == SplitAt(From(t, 4), ",")

\* a platform rule rewrites the '-Wl,' token: on Windows, when a sub-argument
\* names an import library
PlatformRewritesWl(h, t) ==
    /\ h = "windows"
    /\ \E k \in 1..Len(SubArguments(t)) : StartsWith(SubArguments(t)[k], "--out-implib=")

\* C16: a token '-Wl,s1,...,sn' that no platform rule rewrites gives exactly
\* the n tokens '-L=' + si, si without its surrounding whitespace, in order.
C16_LinkerPassUnwrapped ==
    InTranslate =>
        \A i \in 1..(idx - 1) :
            (StartsWith(args[i], "-Wl,") /\ ~PlatformRewritesWl(host, args[i])) =>
                LET s == SubArguments(args[i]) IN
                /\ Cardinality(OutputsOf(i)) = Len(s)
                /\ \A k \in 1..Len(s) :
                    dcargs[Least(OutputsOf(i)) + k - 1] = "-L=" \o Strip(s[k])

\* two sub-arguments with whitespace around them, on a host without a
\* platform rule for the token
C16_Witness ==
    /\ TranslateReturned
    /\ host = "other"
    /\ args = <<"-Wl, -s ,/x ">>
    /\ ret = <<"-L=-s", "-L=/x">>

SearchPathToken(t) == StartsWith(t, "-L/") \/ StartsWith(t, "-L./")

\* C17: a token starting with '-L/' or '-L./' gives exactly one token: '-L='
\* and the token without its '-L' when the token ends in '.a' or '.lib',
\* '-L=' and the whole token otherwise.
C17_SearchPathByExtension ==
    InTranslate =>
        \A i \in 1..(idx - 1) :
            SearchPathToken(args[i]) =>
                /\ Cardinality(OutputsOf(i)) = 1
                /\ \A j \in OutputsOf(i) :
                    dcargs[j] = IF EndsWith(args[i], ".a") \/ EndsWith(args[i], ".lib")
                                THEN "-L=" \o From(args[i], 2)
                                ELSE "-L=" \o args[i]

C17_Witness ==
    /\ TranslateReturned
    /\ args = <<"-L/x/libf.a">>
    /\ ret = <<"-L=/x/libf.a">>

\* a call of the LLVM D compiler on Windows with one '-mscrtlib=V' token
MscrtlibCall ==
    /\ TranslateReturned
    /\ host = "windows"
    /\ self.cls = "LLVMDCompiler"
    /\ Len(args) = 1
    /\ StartsWith(args[1], "-mscrtlib=")

\* V of '-mscrtlib=V', in lower case
RuntimeOf(t) == Lower(From(t, Len("-mscrtlib=")))

CrtExclusion == <<"-L=/NODEFAULTLIB:libcmt", "-L=/NODEFAULTLIB:libvcruntime">>
LegacyStdio == <<"-L=/DEFAULTLIB:legacy_stdio_definitions.lib">>

\* C18 as stated: the token is followed by the two exclusion tokens and the
\* legacy stdio token whenever V is not 'libcmt', and by nothing when it is.
C18_Original_ExtrasIffNotDefault ==
    MscrtlibCall =>
        ret = IF RuntimeOf(args[1]) = "libcmt" THEN args
              ELSE args \o CrtExclusion \o LegacyStdio

\* C18: on Windows with the LLVM D compiler, '-mscrtlib=V' is emitted
\* unchanged; it is followed by the two C-runtime exclusion tokens whenever V
\* in lower case is not 'libcmt', and after them by the legacy stdio token
\* only when V in lower case starts with 'msvcrt'.
C18_ExclusionAndLegacyStdio ==
    MscrtlibCall =>
        ret = args
              \o (IF RuntimeOf(args[1]) = "libcmt" THEN <<>> ELSE CrtExclusion)
              \o (IF StartsWith(RuntimeOf(args[1]), "msvcrt") THEN LegacyStdio ELSE <<>>)

\* a runtime that is neither the default nor an msvcrt: the exclusion tokens
\* and no legacy stdio token
C18_Witness ==
    /\ MscrtlibCall
    /\ args = <<"-mscrtlib=libcmtd">>
    /\ ret = <<"-mscrtlib=libcmtd">> \o CrtExclusion

\* C19: a token starting with '-isystem' gives exactly one token: '-I=P' for
\* the equals form '-isystem=P', the bare '-I' for every other form.
C19_SystemInclude ==
    InTranslate =>
        \A i \in 1..(idx - 1) :
            StartsWith(args[i], "-isystem") =>
                /\ Cardinality(OutputsOf(i)) = 1
                /\ \A j \in OutputsOf(i) :
                    dcargs[j] = IF StartsWith(args[i], "-isystem=")
                                THEN "-I=" \o From(args[i], Len("-isystem="))
                                ELSE "-I"

\* the form without '=' loses its path
C19_Witness ==
    /\ TranslateReturned
    /\ args = <<"-isystem/inc">>
    /\ ret = <<"-I">>

----------------------------------------------------------------------------
(* The two implementations of get_feature_args                             *)

\* what each implementation does with the request of the call
ByMixin == DmdLike_get_feature_args(self, request, build_to_src)
ByDCompiler == DCompiler_get_feature_args(self, request, build_to_src)

\* C20: for every compiler, request and build-to-source path the two
\* implementations of get_feature_args return the same vector or raise the
\* same error, and remove the same keys from the request; the one that ran
\* did just that.
C20_FeatureArgsImplementationsAgree ==
    (FeatureReturned \/ FeatureRaised) =>
        /\ ByMixin.exc = ByDCompiler.exc
        /\ ByMixin.kwargs = ByDCompiler.kwargs
        /\ ByMixin.exc = "" => ByMixin.res = ByDCompiler.res
        /\ exc = ByDCompiler.exc
        /\ kwargs = ByDCompiler.kwargs
        /\ FeatureReturned => ret = ByDCompiler.res

\* DCompiler's implementation ran (GnuDCompiler) on a request with a level
\* and an identifier, and the mixin's gives the same vector
C20_Witness ==
    /\ FeatureReturned
    /\ self.cls = "GnuDCompiler"
    /\ request = <<[k |-> "debug", v |-> ListValue(<<IntVal(1), IntVal(3), StrVal("foo")>>)]>>
    /\ ret = <<"-fdebug=foo", "-fdebug=3">>
    /\ ByMixin.res = ret

----------------------------------------------------------------------------
(* The import-library rule of Windows and the generic unwrapping           *)

\* the positions of the sub-arguments of the token that start with
\* '--out-implib='
ImplibPositions(t) ==
    {k \in 1..Len(SubArguments(t)) : StartsWith(SubArguments(t)[k], "--out-implib=")}

\* C21: on Windows, a '-Wl,' token with at least one sub-argument starting
\* with '--out-implib=' gives exactly one token '-L=/IMPLIB:' + name (the
\* rest of the sub-argument, stripped) per such sub-argument, in order, and
\* nothing for its other sub-arguments; a '-Wl,' token with none gives one
\* '-L=' token for each of its sub-arguments.
C21_ImplibOrGenericUnwrap ==
    (InTranslate /\ host = "windows") =>
        \A i \in 1..(idx - 1) :
            StartsWith(args[i], "-Wl,") =>
                LET s == SubArguments(args[i])
                    implibs == ImplibPositions(args[i])
                    first == Least(OutputsOf(i))
                IN  IF implibs # {}
                    THEN /\ Cardinality(OutputsOf(i)) = Cardinality(implibs)
                         /\ \A k \in implibs :
                             dcargs[first + Cardinality({m \in implibs : m < k})]
                                 = "-L=/IMPLIB:" \o Strip(From(s[k], Len("--out-implib=")))
                    ELSE /\ Cardinality(OutputsOf(i)) = Len(s)
                         /\ \A k \in 1..Len(s) :
                             dcargs[first + k - 1] = "-L=" \o Strip(s[k])

\* two import-library sub-arguments around another one: two tokens
C21_Witness ==
    /\ TranslateReturned
    /\ host = "windows"
    /\ args = <<"-Wl,--out-implib=a,-s,--out-implib= b ">>
    /\ ret = <<"-L=/IMPLIB:a", "-L=/IMPLIB:b">>

====
